---- MODULE Spec2Model ----
(***************************************************************************)
(* Model of src/app.py: the two sequence generators                        *)
(* (generate_arithmetic_sequence, generate_geometric_sequence) and the     *)
(* part of main() that validates the term count, dispatches to one         *)
(* generator and derives the summary values (sum, last term, average,      *)
(* range).                                                                 *)
(*                                                                         *)
(* Numbers.  The widgets hand main() Python floats.  A float is modelled   *)
(* as an integer of magnitude at most FloatMax (the largest finite value,  *)
(* sys.float_info.max scaled down), or one of three special values:        *)
(* Inf, NegInf, NaN.  As in Python, + and * overflow silently to an        *)
(* infinity, inf - inf and inf * 0 give nan, and float ** int raises       *)
(* OverflowError when the result is out of range.  Rounding below          *)
(* FloatMax is not modelled: every finite value of the model is exact.     *)
(***************************************************************************)
EXTENDS Integers, Sequences, FiniteSets, TLC

\* ------------------------------------------------------------------ bounds
\* Largest finite float of the model.
FloatMax == 1000
\* First terms offered by the widget: -MaxFirst..MaxFirst and +-FloatMax.
MaxFirst == 2
\* Step values offered by the widget: -MaxStep..MaxStep and +-FloatMax.
MaxStep == 3
\* Largest term count the model's user enters (the widget allows max_value).
MaxTerms == 10

\* ------------------------------------------------------- program constants
min_value == 1
max_value == 1000
default_num_terms == 10
default_first_arithmetic == 0
default_difference == 1

Arithmetic == "Arithmetic Sequence"
Geometric == "Geometric Sequence"
SequenceTypes == {Arithmetic, Geometric}

\* ------------------------------------------------------------------ floats
Inf == FloatMax + 1
NegInf == -(FloatMax + 1)
NaN == FloatMax + 2

IsNaN(x) == x = NaN
IsInf(x) == x = Inf \/ x = NegInf
IsFinite(x) == ~IsNaN(x) /\ ~IsInf(x)
Abs(x) == IF x < 0 THEN -x ELSE x
Sign(x) == IF x > 0 THEN 1 ELSE IF x < 0 THEN -1 ELSE 0

\* An exact result delivered as a float: out of range becomes an infinity.
overflow_to_inf(x) ==
    IF x > FloatMax THEN Inf ELSE IF x < -FloatMax THEN NegInf ELSE x

\* Python float + float.
float_add(x, y) ==
    IF IsNaN(x) \/ IsNaN(y) THEN NaN
    ELSE IF IsInf(x) /\ IsInf(y) THEN (IF x = y THEN x ELSE NaN)
    ELSE IF IsInf(x) THEN x
    ELSE IF IsInf(y) THEN y
    ELSE overflow_to_inf(x + y)

\* Python float * float (an int operand is converted exactly first).
float_mul(x, y) ==
    IF IsNaN(x) \/ IsNaN(y) THEN NaN
    ELSE IF IsInf(x) \/ IsInf(y)
         THEN (IF x = 0 \/ y = 0 THEN NaN
               ELSE IF Sign(x) * Sign(y) > 0 THEN Inf ELSE NegInf)
    ELSE overflow_to_inf(x * y)

\* Python float - float.
float_sub(x, y) ==
    IF IsNaN(y) THEN NaN ELSE float_add(x, -y)

\* x^k for a finite x and k >= 0, exact while its magnitude is at most
\* FloatMax; once the magnitude has passed FloatMax the value is kept as it
\* is (only the fact that it is out of range is used).  0^0 = 1.
RECURSIVE Pow(_, _)
Pow(x, k) ==
    IF k = 0 THEN 1
    ELSE LET p == Pow(x, k - 1)
         IN  IF Abs(p) > FloatMax THEN p ELSE x * p

\* 0.0 ** 0 taken as 0: the convention a library could have chosen instead.
float_pow_zero_to_zero(x, k) ==
    [raises |-> Abs(Pow(x, k)) > FloatMax,
     value  |-> IF x = 0 THEN 0 ELSE Pow(x, k)]

\* Python float ** int for a finite base and an exponent >= 0: the value,
\* or OverflowError when the result is out of range.
float_pow(x, k) ==
    [raises |-> Abs(Pow(x, k)) > FloatMax, value |-> Pow(x, k)]

\* ------------------------------------------------------------- generators
\* Off by one: the term of position i+1 in place of the term of index i.
arithmetic_term_off_by_one(first, difference, idx) ==
    float_add(first, float_mul(idx + 1, difference))

\* Line 21: term = first_term + (i * common_difference).
arithmetic_term(first, difference, idx) ==
    float_add(first, float_mul(idx, difference))

\* Line 39: term = first_term * (common_ratio ** i), once ** has returned.
geometric_term(first, power) ==
    float_mul(first, power)

\* ---------------------------------------------------------------- summary
\* The first element in place of the last.
last_element_first(seq) == seq[1]

\* sequence[-1]
last_element(seq) == seq[Len(seq)]

\* sum(sequence): accumulation from 0, left to right.
RECURSIVE python_sum_from(_, _, _)
python_sum_from(acc, seq, k) ==
    IF k > Len(seq) THEN acc
    ELSE python_sum_from(float_add(acc, seq[k]), seq, k + 1)

python_sum(seq) == python_sum_from(0, seq, 1)

\* num / den rounded to the nearest integer, ties to even (den > 0).
round_half_even(num, den) ==
    LET q == num \div den
        r == num - q * den
    IN  IF 2 * r < den THEN q
        ELSE IF 2 * r > den THEN q + 1
        ELSE IF q % 2 = 0 THEN q ELSE q + 1

\* f"{total/count:.2f}": the quotient as shown, in hundredths; an infinite
\* or nan total is shown as inf, -inf or nan.
format_2f(total, count) ==
    IF IsNaN(total) THEN [kind |-> "nan", hundredths |-> 0]
    ELSE IF total = Inf THEN [kind |-> "inf", hundredths |-> 0]
    ELSE IF total = NegInf THEN [kind |-> "-inf", hundredths |-> 0]
    ELSE [kind |-> "finite", hundredths |-> round_half_even(100 * total, count)]

NoAverage == [kind |-> "none", hundredths |-> 0]

\* ------------------------------------------------------------------- state
VARIABLES
    pc,             \* "main", "arithmetic", "geometric", "summary", "done"
    sequence_type,  \* the radio button
    first_term,     \* number_input "First Term"
    second_param,   \* number_input "Common Difference" / "Common Ratio"
    num_terms,      \* number_input "Number of Terms"
    sequence,       \* the list the running generator appends to / returned
    i,              \* completed iterations of the generator's loop
    raised,         \* the generator raised; main showed st.error
    warned,         \* main showed st.warning
    summarised,     \* the summary values below have been computed
    sequence_sum, last_term, average, range_value,
    arithmetic_calls, geometric_calls   \* generator invocations of this run

vars == <<pc, sequence_type, first_term, second_param, num_terms, sequence, i,
          raised, warned, summarised, sequence_sum, last_term, average,
          range_value, arithmetic_calls, geometric_calls>>

inputs == <<sequence_type, first_term, second_param, num_terms>>
summary == <<summarised, sequence_sum, last_term, average, range_value>>
calls == <<arithmetic_calls, geometric_calls>>

FirstTerms == (-MaxFirst .. MaxFirst) \cup {FloatMax, -FloatMax}
StepValues == (-MaxStep .. MaxStep) \cup {FloatMax, -FloatMax}
TermCounts == {n \in min_value .. MaxTerms : n <= max_value}

\* The first script run: every widget at its default value.
Init ==
    /\ pc = "main"
    /\ sequence_type = Arithmetic
    /\ first_term = default_first_arithmetic
    /\ second_param = default_difference
    /\ num_terms = default_num_terms
    /\ sequence = <<>>
    /\ i = 0
    /\ raised = FALSE
    /\ warned = FALSE
    /\ summarised = FALSE
    /\ sequence_sum = 0
    /\ last_term = 0
    /\ average = NoAverage
    /\ range_value = 0
    /\ arithmetic_calls = 0
    /\ geometric_calls = 0

\* The generator of the other type.
selected_generator_swapped(type) ==
    IF type = Arithmetic THEN "geometric" ELSE "arithmetic"

\* Lines 107-110: the generator main calls for a sequence type.
selected_generator(type) ==
    IF type = Arithmetic THEN "arithmetic" ELSE "geometric"

\* Lines 104-110, 396-397: validate the term count, then call one generator
\* (which starts with an empty list), or warn.
main_validate ==
    /\ pc = "main"
    /\ IF num_terms > 0
       THEN /\ pc' = selected_generator(sequence_type)
            /\ arithmetic_calls' =
                 arithmetic_calls + (IF pc' = "arithmetic" THEN 1 ELSE 0)
            /\ geometric_calls' =
                 geometric_calls + (IF pc' = "geometric" THEN 1 ELSE 0)
            /\ warned' = FALSE
       ELSE /\ pc' = "done"
            /\ warned' = TRUE
            /\ UNCHANGED calls
    /\ sequence' = <<>>
    /\ i' = 0
    /\ UNCHANGED <<inputs, raised, summary>>

\* Lines 20-22: one iteration of the arithmetic generator's loop.
arithmetic_iteration ==
    /\ pc = "arithmetic"
    /\ i < num_terms
    /\ sequence' = Append(sequence, arithmetic_term(first_term, second_param, i))
    /\ i' = i + 1
    /\ UNCHANGED <<pc, inputs, raised, warned, summary, calls>>

\* Line 23: the loop is over, the list is returned to main.
arithmetic_return ==
    /\ pc = "arithmetic"
    /\ i >= num_terms
    /\ pc' = "summary"
    /\ UNCHANGED <<inputs, sequence, i, raised, warned, summary, calls>>

\* Lines 38-40: one iteration of the geometric generator's loop.  When **
\* raises OverflowError the call is abandoned with the list as built so far
\* (main never receives it), and main's handler (lines 394-395) reports the
\* error.
geometric_iteration ==
    /\ pc = "geometric"
    /\ i < num_terms
    /\ LET power == float_pow(second_param, i)
       IN  IF power.raises
           THEN /\ pc' = "done"
                /\ raised' = TRUE
                /\ UNCHANGED <<sequence, i>>
           ELSE /\ sequence' = Append(sequence, geometric_term(first_term, power.value))
                /\ i' = i + 1
                /\ UNCHANGED <<pc, raised>>
    /\ UNCHANGED <<inputs, warned, summary, calls>>

\* Line 41: the loop is over, the list is returned to main.
geometric_return ==
    /\ pc = "geometric"
    /\ i >= num_terms
    /\ pc' = "summary"
    /\ UNCHANGED <<inputs, sequence, i, raised, warned, summary, calls>>

\* Lines 310-311, 322, 392: the summary values of the returned sequence.
main_summary ==
    /\ pc = "summary"
    /\ last_term' = last_element(sequence)
    /\ sequence_sum' = python_sum(sequence)
    /\ average' = format_2f(sequence_sum', num_terms)
    /\ range_value' = float_sub(last_term', first_term)
    /\ summarised' = TRUE
    /\ pc' = "done"
    /\ UNCHANGED <<inputs, sequence, i, raised, warned, calls>>

\* The user changes the widgets; the script runs again from the top.
rerun ==
    /\ pc = "done"
    /\ sequence_type' \in SequenceTypes
    /\ first_term' \in FirstTerms
    /\ second_param' \in StepValues
    /\ num_terms' \in TermCounts
    /\ pc' = "main"
    /\ sequence' = <<>>
    /\ i' = 0
    /\ raised' = FALSE
    /\ warned' = FALSE
    /\ summarised' = FALSE
    /\ sequence_sum' = 0
    /\ last_term' = 0
    /\ average' = NoAverage
    /\ range_value' = 0
    /\ arithmetic_calls' = 0
    /\ geometric_calls' = 0

Next ==
    \/ main_validate
    \/ arithmetic_iteration
    \/ arithmetic_return
    \/ geometric_iteration
    \/ geometric_return
    \/ main_summary
    \/ rerun

Spec == Init /\ [][Next]_vars

TypeOK ==
    /\ pc \in {"main", "arithmetic", "geometric", "summary", "done"}
    /\ sequence_type \in SequenceTypes
    /\ num_terms \in TermCounts
    /\ i \in 0 .. num_terms
    /\ Len(sequence) = i

\* ------------------------------------------------------------------ claims
\* The running generator has ended: it returned its list, or it raised.
CallEnded == pc \in {"summary", "done"}

\* C1: when generate_arithmetic_sequence(a, d, n) has ended it has returned
\* a list of exactly n elements whose element at index i is a + i*d, for
\* every i in [0, n) (as Python evaluates a + i*d on floats).
C1_ArithmeticTerms ==
    (sequence_type = Arithmetic /\ CallEnded) =>
        /\ ~raised
        /\ Len(sequence) = num_terms
        /\ \A idx \in 0 .. num_terms - 1 :
             sequence[idx + 1] =
                 float_add(first_term, float_mul(idx, second_param))

C1_Witness ==
    /\ sequence_type = Arithmetic
    /\ pc = "done"
    /\ num_terms >= 3
    /\ second_param # 0
    /\ first_term # 0
    /\ Len(sequence) = num_terms

\* C2: when generate_geometric_sequence(a, r, n) has ended it has returned
\* a list of exactly n elements whose element at index i is a * r^i, for
\* every i in [0, n).
C2_GeometricTerms ==
    (sequence_type = Geometric /\ CallEnded) =>
        /\ ~raised
        /\ Len(sequence) = num_terms
        /\ \A idx \in 0 .. num_terms - 1 :
             sequence[idx + 1] = float_mul(first_term, Pow(second_param, idx))

\* Python's == on floats: nan equals nothing.
FloatEq(x, y) == ~IsNaN(x) /\ ~IsNaN(y) /\ x = y

\* total == numerator / 2 on floats: an infinite numerator halves to itself.
EqualsHalf(total, numerator) ==
    IF IsFinite(numerator) /\ IsFinite(total)
    THEN 2 * total = numerator
    ELSE FloatEq(total, numerator)

\* n * (a1 + an), with a1 and an the first and last generated terms.
FirstLastForm ==
    float_mul(num_terms, float_add(sequence[1], sequence[Len(sequence)]))

\* n * (2a + (n-1)d).
DifferenceForm ==
    float_mul(num_terms,
              float_add(float_mul(2, first_term),
                        float_mul(num_terms - 1, second_param)))

ArithmeticSummarised ==
    sequence_type = Arithmetic /\ pc = "done" /\ summarised

SumIdentities ==
    /\ EqualsHalf(sequence_sum, FirstLastForm)
    /\ EqualsHalf(sequence_sum, DifferenceForm)
    /\ FloatEq(FirstLastForm, DifferenceForm)

C4_GeometricSum ==
    (sequence_type = Geometric /\ pc = "done") =>
        /\ summarised
        /\ IF second_param = 1
           THEN /\ FloatEq(sequence_sum, float_mul(num_terms, first_term))
                /\ \A k \in 1 .. Len(sequence) : sequence[k] = first_term
           ELSE /\ IsFinite(sequence_sum)
                /\ (1 - second_param) * sequence_sum =
                       first_term * (1 - Pow(second_param, num_terms))

\* C5: every call of a generator completes and returns the full list of n
\* numbers: it never raises and never yields a partial result.
C5_Total ==
    CallEnded => (~raised /\ Len(sequence) = num_terms)

C7_ZeroRatio ==
    (sequence_type = Geometric /\ second_param = 0 /\ CallEnded) =>
        /\ ~raised
        /\ Len(sequence) = num_terms
        /\ sequence[1] = first_term
        /\ \A k \in 2 .. num_terms : sequence[k] = 0

C7_Witness ==
    /\ sequence_type = Geometric
    /\ second_param = 0
    /\ pc = "done"
    /\ num_terms >= 3
    /\ first_term # 0
    /\ Len(sequence) = num_terms

\* C8: with r < 0, a # 0 and n >= 2 the geometric generator returns n terms
\* of alternating sign: consecutive terms have strictly opposite signs, the
\* terms at even index have the sign of a, and each term is a * r^i.
C8_Alternates ==
    (/\ sequence_type = Geometric
     /\ second_param < 0
     /\ first_term # 0
     /\ num_terms >= 2
     /\ CallEnded) =>
        /\ ~raised
        /\ Len(sequence) = num_terms
        /\ \A k \in 1 .. num_terms - 1 :
             Sign(sequence[k]) * Sign(sequence[k + 1]) = -1
        /\ \A idx \in 0 .. num_terms - 1 :
             /\ (idx % 2 = 0 => Sign(sequence[idx + 1]) = Sign(first_term))
             /\ sequence[idx + 1] = float_mul(first_term, Pow(second_param, idx))

\* The accumulation of the first k terms, from 0, left to right.
Accumulated(seq) ==
    LET S[k \in 0 .. Len(seq)] ==
            IF k = 0 THEN 0 ELSE float_add(S[k - 1], seq[k])
    IN  S[Len(seq)]

\* C9: the summary values come from the generated sequence alone: it has
\* n >= 1 terms, sum is the accumulation of all of them, last term is the
\* final element, the average shown is sum / n (to two decimals), and range
\* is the last term minus the first.
C9_Summary ==
    summarised =>
        /\ num_terms >= 1
        /\ Len(sequence) = num_terms
        /\ sequence_sum = Accumulated(sequence)
        /\ last_term = sequence[num_terms]
        /\ range_value = float_sub(sequence[num_terms], sequence[1])
        /\ IF IsFinite(sequence_sum)
           THEN /\ average.kind = "finite"
                /\ 2 * Abs(average.hundredths * num_terms - 100 * sequence_sum)
                       <= num_terms
           ELSE average.kind =
                    (IF IsNaN(sequence_sum) THEN "nan"
                     ELSE IF sequence_sum = Inf THEN "inf" ELSE "-inf")

C9_Witness ==
    /\ summarised
    /\ num_terms >= 3
    /\ IsFinite(sequence_sum)
    /\ sequence_sum % num_terms # 0
    /\ last_term # sequence[1]
    /\ range_value # 0

\* C10: a generator call ends after exactly n loop iterations (at most
\* max_value), and the list it builds has one element per completed
\* iteration.
C10_ExactlyNIterations ==
    /\ Len(sequence) = i
    /\ (CallEnded => i = num_terms /\ i <= max_value)

\* While a generator runs, its list only grows by one element at the end.
AppendStep ==
    pc \in {"arithmetic", "geometric"} =>
        \/ sequence' = sequence
        \/ /\ Len(sequence') = Len(sequence) + 1
           /\ SubSeq(sequence', 1, Len(sequence)) = sequence

AppendOnly == [][AppendStep]_vars

====
